---- MODULE Spec2Model ----
(***************************************************************************)
(* Model of installer/generate_store_assets.py: the store-asset generator. *)
(*                                                                         *)
(* An image is a record [width, height, mode, ink]: its size, its pixel    *)
(* mode ("RGBA" or "RGB") and the colour of its (uniform) content as an    *)
(* <<r, g, b, a>> tuple.  A canvas returned by a create_* function is a    *)
(* record [width, height, bg, box, ink]: a background colour and the       *)
(* rectangle that paste() wrote, with the colour it wrote there.           *)
(***************************************************************************)
EXTENDS Integers, Sequences, FiniteSets, TLC

VARIABLES
    pc,             \* position of the process in the script
    pillow,         \* environment: the image library can be imported
    icoFile,        \* environment: SOURCE_ICON on disk
    pngFile,        \* environment: SOURCE_PNG on disk
    dirExists,      \* filesystem: ASSETS_DIR exists
    files,          \* filesystem: ASSETS_DIR contents, filename -> <<w, h>>
    dirAtStart,     \* history: dirExists when the process started
    filesAtStart,   \* history: files when the process started
    source,         \* main(): the local `source`
    loop,           \* main(): which of the three for-loops is running
    fam,            \* main(): index of base_name in the loop's table
    sc,             \* main(): index of (scale, size) in the family's list
    icon,           \* main(): the local `icon` / `splash` (image in flight)
    generated,      \* main(): the local `generated`
    written,        \* history: filenames saved by this run, in order
    log,            \* lines printed to stdout
    exitCode,       \* process exit code (Running while it runs)
    call,           \* direct call of a create_* function: its arguments
    ret             \* direct call of a create_* function: its result

vars == <<pc, pillow, icoFile, pngFile, dirExists, files, dirAtStart,
          filesAtStart, source, loop, fam, sc, icon, generated, written,
          log, exitCode, call, ret>>

mainVars == <<pc, pillow, icoFile, pngFile, dirExists, files, dirAtStart,
              filesAtStart, source, loop, fam, sc, icon, generated, written,
              log, exitCode>>

\* the process has not exited
Running == -1

(***************************************************************************)
(* Bounds of the model.                                                    *)
(***************************************************************************)
\* sides of the small icon frames tried by main(), next to BigSide
MaxSide == 1
\* largest number of frames embedded in the icon file
MaxFrames == 2
\* largest side of a source image passed to a create_* function directly
MaxSrc == 4
\* largest target width / height / size passed to a create_* function
MaxDim == 6

(***************************************************************************)
(* Program constants.                                                      *)
(***************************************************************************)
SQUARE_ASSETS ==
    << [base_name |-> "Square44x44Logo",
        scales |-> << <<100, 44>>, <<125, 55>>, <<150, 66>>, <<200, 88>>, <<400, 176>> >>],
       [base_name |-> "Square71x71Logo",
        scales |-> << <<100, 71>>, <<125, 89>>, <<150, 107>>, <<200, 142>>, <<400, 284>> >>],
       [base_name |-> "Square150x150Logo",
        scales |-> << <<100, 150>>, <<125, 188>>, <<150, 225>>, <<200, 300>>, <<400, 600>> >>],
       [base_name |-> "Square310x310Logo",
        scales |-> << <<100, 310>>, <<125, 388>>, <<150, 465>>, <<200, 620>>, <<400, 1240>> >>],
       [base_name |-> "StoreLogo",
        scales |-> << <<100, 50>>, <<125, 63>>, <<150, 75>>, <<200, 100>>, <<400, 200>> >>] >>

WIDE_ASSETS ==
    << [base_name |-> "Wide310x150Logo",
        scales |-> << <<100, <<310, 150>> >>, <<125, <<388, 188>> >>, <<150, <<465, 225>> >>,
                      <<200, <<620, 300>> >>, <<400, <<1240, 600>> >> >>] >>

SPLASH_SCREEN ==
    << [base_name |-> "SplashScreen",
        scales |-> << <<100, <<620, 300>> >>, <<125, <<775, 375>> >>, <<150, <<930, 450>> >>,
                      <<200, <<1240, 600>> >> >>] >>

TRANSPARENT == <<0, 0, 0, 0>>
BACKGROUND == <<18, 18, 20, 255>>
WHITE == <<255, 255, 255, 255>>

\* side of a source image larger than most targets
BigSide == 512

(***************************************************************************)
(* Image operations of the library, as the script uses them.               *)
(***************************************************************************)
Max(a, b) == IF a >= b THEN a ELSE b
Min(a, b) == IF a <= b THEN a ELSE b
Abs(a) == IF a >= 0 THEN a ELSE -a
CeilDiv(a, b) == (a + b - 1) \div b

NewImage(w, h, mode, ink) == [width |-> w, height |-> h, mode |-> mode, ink |-> ink]

\* Image.copy(): a new object with the same content.
Copy(img) == img

\* Image.convert('RGBA'): an image without alpha becomes fully opaque.
ConvertRGBA(img) ==
    IF img.mode = "RGBA" THEN img
    ELSE NewImage(img.width, img.height, "RGBA",
                  <<img.ink[1], img.ink[2], img.ink[3], 255>>)

\* round_aspect(number, key) for the width: number = y * aspect and
\* key(n) = abs(aspect - n / y).  min() returns floor(number) unless
\* ceil(number) has the smaller key.  The keys are floating-point numbers:
\* where they are equal as rationals, rounding decides, and `up` says which
\* way it went.
RoundAspectX(w, h, y, up) ==
    LET lo == (y * w) \div h
        hi == CeilDiv(y * w, h)
        klo == Abs(w * y - lo * h)
        khi == Abs(w * y - hi * h)
    IN  Max(IF klo < khi \/ (klo = khi /\ ~up) \/ lo = hi THEN lo ELSE hi, 1)

\* round_aspect for the height: number = x / aspect and
\* key(n) = 0 if n == 0 else abs(aspect - x / n); the keys are compared
\* cross-multiplied by lo * hi * h.
RoundAspectY(w, h, x, up) ==
    LET lo == (x * h) \div w
        hi == CeilDiv(x * h, w)
        klo == Abs(w * lo - x * h) * hi
        khi == Abs(w * hi - x * h) * lo
    IN  Max(IF lo = 0 \/ lo = hi \/ klo < khi \/ (klo = khi /\ ~up) THEN lo ELSE hi, 1)

\* mutant: Image.resize() semantics, the image is always scaled to the bound
Thumbnail_upscale(img, x, y, up) ==
    LET w == img.width
        h == img.height
    IN  IF y = 0 THEN [ok |-> FALSE, img |-> img]
        ELSE IF x * h >= w * y
             THEN [ok |-> TRUE,
                   img |-> [img EXCEPT !.width = RoundAspectX(w, h, y, up), !.height = y]]
             ELSE [ok |-> TRUE,
                   img |-> [img EXCEPT !.width = x, !.height = RoundAspectY(w, h, x, up)]]

\* Image.thumbnail((x, y)): resize in place to fit within x by y, keeping the
\* aspect ratio; an image that already fits is left as it is.  The division
\* x / y raises ZeroDivisionError when y is 0.
Thumbnail(img, x, y, up) ==
    LET w == img.width
        h == img.height
    IN  IF x >= w /\ y >= h THEN [ok |-> TRUE, img |-> img]
        ELSE IF y = 0 THEN [ok |-> FALSE, img |-> img]
        ELSE IF x * h >= w * y
             THEN [ok |-> TRUE,
                   img |-> [img EXCEPT !.width = RoundAspectX(w, h, y, up), !.height = y]]
             ELSE [ok |-> TRUE,
                   img |-> [img EXCEPT !.width = x, !.height = RoundAspectY(w, h, x, up)]]

\* Image.new('RGBA', (w, h), colour) followed by paste(img, (x, y), mask):
\* the canvas, the rectangle pasted and the colour pasted.  With a mask (the
\* image's own alpha) a transparent image leaves the canvas as it is.
Canvas(w, h, bg, img, x, y) ==
    [width |-> w, height |-> h, bg |-> bg,
     box |-> [x |-> x, y |-> y, w |-> img.width, h |-> img.height],
     ink |-> IF img.mode = "RGBA" /\ img.ink[4] = 0 THEN bg
             ELSE <<img.ink[1], img.ink[2], img.ink[3], 255>>]

InBox(c, px, py) ==
    /\ c.box.x <= px /\ px < c.box.x + c.box.w
    /\ c.box.y <= py /\ py < c.box.y + c.box.h

\* colour of pixel (px, py) of a canvas
Pixel(c, px, py) == IF InBox(c, px, py) THEN c.ink ELSE c.bg

NoImage == NewImage(0, 0, "none", TRANSPARENT)

NoCanvas == [width |-> 0, height |-> 0, bg |-> TRANSPARENT,
             box |-> [x |-> 0, y |-> 0, w |-> 0, h |-> 0], ink |-> TRANSPARENT]

(***************************************************************************)
(* The three compositing functions.  Each returns [ok, result, source]:    *)
(* whether it returned normally, the canvas, and the caller's source       *)
(* object as the call left it.                                             *)
(***************************************************************************)
\* mutant: thumbnail() is applied to the source itself, without copy()
create_square_icon_nocopy(src, size, up) ==
    LET t == Thumbnail(src, size, size, up)
        x == (size - t.img.width) \div 2
        y == (size - t.img.height) \div 2
    IN  IF t.ok
        THEN [ok |-> TRUE, source |-> t.img,
              result |-> Canvas(size, size, TRANSPARENT, t.img, x, y)]
        ELSE [ok |-> FALSE, source |-> t.img, result |-> NoCanvas]

\* mutant: the canvas is created with the banner's background colour
create_square_icon_opaque(src, size, up) ==
    LET t == Thumbnail(Copy(src), size, size, up)
        x == (size - t.img.width) \div 2
        y == (size - t.img.height) \div 2
    IN  IF t.ok
        THEN [ok |-> TRUE, source |-> src,
              result |-> Canvas(size, size, BACKGROUND, t.img, x, y)]
        ELSE [ok |-> FALSE, source |-> src, result |-> NoCanvas]

create_square_icon(src, size, up) ==
    LET t == Thumbnail(Copy(src), size, size, up)
        x == (size - t.img.width) \div 2
        y == (size - t.img.height) \div 2
    IN  IF t.ok
        THEN [ok |-> TRUE, source |-> src,
              result |-> Canvas(size, size, TRANSPARENT, t.img, x, y)]
        ELSE [ok |-> FALSE, source |-> src, result |-> NoCanvas]

\* mutant: the icon is scaled to the full height
WideIconSize_full(height) == height

\* int(height * 0.6)
WideIconSize(height) == (height * 6) \div 10

create_wide_icon(src, width, height, up) ==
    LET icon_size == WideIconSize(height)
        t == Thumbnail(Copy(src), icon_size, icon_size, up)
        x == (width - t.img.width) \div 2
        y == (height - t.img.height) \div 2
    IN  IF t.ok
        THEN [ok |-> TRUE, source |-> src,
              result |-> Canvas(width, height, BACKGROUND, t.img, x, y)]
        ELSE [ok |-> FALSE, source |-> src, result |-> NoCanvas]

\* min(int(height * 0.5), int(width * 0.3))
SplashIconSize(width, height) == Min(height \div 2, (width * 3) \div 10)

create_splash_screen(src, width, height, up) ==
    LET icon_size == SplashIconSize(width, height)
        t == Thumbnail(Copy(src), icon_size, icon_size, up)
        x == (width - t.img.width) \div 2
        y == (height - t.img.height) \div 2
    IN  IF t.ok
        THEN [ok |-> TRUE, source |-> src,
              result |-> Canvas(width, height, BACKGROUND, t.img, x, y)]
        ELSE [ok |-> FALSE, source |-> src, result |-> NoCanvas]

(***************************************************************************)
(* The script: module import, then main().                                 *)
(***************************************************************************)
\* mutant: the suffix is written for scale 100 too
Filename_suffix100(base_name, scale) ==
    base_name \o ".scale-" \o ToString(scale) \o ".png"

\* mutant: the scale suffix is dropped
Filename_noscale(base_name, scale) == base_name \o ".png"

\* lines 139-142: the file name of an entry
Filename(base_name, scale) ==
    IF scale = 100 THEN base_name \o ".png"
    ELSE base_name \o ".scale-" \o ToString(scale) \o ".png"

Table(l) ==
    CASE l = "square" -> SQUARE_ASSETS
      [] l = "wide" -> WIDE_ASSETS
      [] l = "splash" -> SPLASH_SCREEN

\* the (scale, size) pair the loops are at
Entry == Table(loop)[fam].scales[sc]
EntryName == Filename(Table(loop)[fam].base_name, Entry[1])

\* mutant: sizes.sort() without reverse=True
LargestFrame_ascending(frames) ==
    CHOOSE i \in 1..Len(frames) :
        \A j \in 1..Len(frames) :
            LET ai == frames[i].width * frames[i].height
                aj == frames[j].width * frames[j].height
            IN  ai < aj \/ (aj = ai /\ i <= j)

\* sizes.sort(reverse=True); sizes[0]: the tuples (area, i, frame) in
\* descending order, so the first has the largest area and, among those, the
\* largest index.
LargestFrame(frames) ==
    CHOOSE i \in 1..Len(frames) :
        \A j \in 1..Len(frames) :
            LET ai == frames[i].width * frames[i].height
                aj == frames[j].width * frames[j].height
            IN  aj < ai \/ (aj = ai /\ j <= i)

\* Image.open(SOURCE_ICON): a plugin that has n_frames presents frame 0 until
\* seek() is called; the ICO plugin, which has none, presents the entry of
\* the largest area (first of them in the file).
OpenIcon(f) ==
    IF f.n_frames_attr THEN f.frames[1]
    ELSE f.frames[CHOOSE i \in 1..Len(f.frames) :
                    \A j \in 1..Len(f.frames) :
                        LET ai == f.frames[i].width * f.frames[i].height
                            aj == f.frames[j].width * f.frames[j].height
                        IN  aj < ai \/ (aj = ai /\ i <= j)]

\* lines 111-120
SelectIconFrame(f) ==
    IF f.n_frames_attr /\ Len(f.frames) > 1
    THEN Copy(f.frames[LargestFrame(f.frames)])
    ELSE OpenIcon(f)

Exit(code) ==
    /\ pc' = "exited"
    /\ exitCode' = code

\* lines 18-22: the import guard
Import ==
    /\ pc = "import"
    /\ IF pillow
       THEN /\ pc' = "main"
            /\ UNCHANGED <<log, exitCode>>
       ELSE /\ log' = Append(log, "Error: Pillow not installed. Run: pip install Pillow")
            /\ Exit(1)
    /\ UNCHANGED <<pillow, icoFile, pngFile, dirExists, files, dirAtStart,
                   filesAtStart, source, loop, fam, sc, icon, generated,
                   written, call, ret>>

\* mutant: the directory is not created
MakeAssetsDir_nomkdir ==
    /\ pc = "main"
    /\ log' = Append(log, "Generating Microsoft Store assets...")
    /\ pc' = "select"
    /\ UNCHANGED <<pillow, icoFile, pngFile, dirExists, files, dirAtStart,
                   filesAtStart, source, loop, fam, sc, icon, generated,
                   written, exitCode, call, ret>>

\* lines 103-106: ASSETS_DIR.mkdir(parents=True, exist_ok=True)
MakeAssetsDir ==
    /\ pc = "main"
    /\ log' = Append(log, "Generating Microsoft Store assets...")
    /\ dirExists' = TRUE
    /\ pc' = "select"
    /\ UNCHANGED <<pillow, icoFile, pngFile, files, dirAtStart, filesAtStart,
                   source, loop, fam, sc, icon, generated, written, exitCode,
                   call, ret>>

\* lines 109-120
UseIco ==
    /\ pc = "select"
    /\ icoFile.exists
    /\ log' = Append(log, "Using ICO source: SOURCE_ICON")
    /\ source' = SelectIconFrame(icoFile)
    /\ pc' = "convert"
    /\ UNCHANGED <<pillow, icoFile, pngFile, dirExists, files, dirAtStart,
                   filesAtStart, loop, fam, sc, icon, generated, written,
                   exitCode, call, ret>>

\* lines 121-123
UsePng ==
    /\ pc = "select"
    /\ ~icoFile.exists
    /\ pngFile.exists
    /\ log' = Append(log, "Using PNG source: SOURCE_PNG")
    /\ source' = pngFile.image
    /\ pc' = "convert"
    /\ UNCHANGED <<pillow, icoFile, pngFile, dirExists, files, dirAtStart,
                   filesAtStart, loop, fam, sc, icon, generated, written,
                   exitCode, call, ret>>

\* mutant: the error branch lacks sys.exit(1) and falls through
NoSource_fallthrough ==
    /\ pc = "select"
    /\ ~icoFile.exists
    /\ ~pngFile.exists
    /\ log' = log \o << "Error: No source icon found!",
                        "  Tried: SOURCE_ICON",
                        "  Tried: SOURCE_PNG" >>
    /\ pc' = "convert"
    /\ UNCHANGED <<pillow, icoFile, pngFile, dirExists, files, dirAtStart,
                   filesAtStart, source, loop, fam, sc, icon, generated,
                   written, exitCode, call, ret>>

\* lines 124-128
NoSource ==
    /\ pc = "select"
    /\ ~icoFile.exists
    /\ ~pngFile.exists
    /\ log' = log \o << "Error: No source icon found!",
                        "  Tried: SOURCE_ICON",
                        "  Tried: SOURCE_PNG" >>
    /\ Exit(1)
    /\ UNCHANGED <<pillow, icoFile, pngFile, dirExists, files, dirAtStart,
                   filesAtStart, source, loop, fam, sc, icon, generated,
                   written, call, ret>>

\* lines 130-134
Convert ==
    /\ pc = "convert"
    /\ source' = ConvertRGBA(source)
    /\ log' = Append(log, "Source icon: WxH")
    /\ generated' = 0
    /\ loop' = "square"
    /\ fam' = 1
    /\ sc' = 1
    /\ pc' = "compute"
    /\ UNCHANGED <<pillow, icoFile, pngFile, dirExists, files, dirAtStart,
                   filesAtStart, icon, written, exitCode, call, ret>>

\* the outcome of a create_* call in main(): the image in flight, or the
\* uncaught exception
Computed(r) ==
    /\ source' = r.source
    /\ IF r.ok
       THEN /\ icon' = r.result
            /\ pc' = "save"
            /\ UNCHANGED exitCode
       ELSE /\ icon' = icon
            /\ Exit(1)
    /\ UNCHANGED <<pillow, icoFile, pngFile, dirExists, files, dirAtStart,
                   filesAtStart, loop, fam, sc, generated, written, log,
                   call, ret>>

\* line 145
ComputeSquare ==
    /\ pc = "compute"
    /\ loop = "square"
    /\ \E up \in BOOLEAN : Computed(create_square_icon(source, Entry[2], up))

\* line 159
ComputeWide ==
    /\ pc = "compute"
    /\ loop = "wide"
    /\ \E up \in BOOLEAN :
          Computed(create_wide_icon(source, Entry[2][1], Entry[2][2], up))

\* line 173
ComputeSplash ==
    /\ pc = "compute"
    /\ loop = "splash"
    /\ \E up \in BOOLEAN :
          Computed(create_splash_screen(source, Entry[2][1], Entry[2][2], up))

\* Image.save(output_path, "PNG"): the file is created or replaced
WriteFile(fs, name, img) ==
    [n \in DOMAIN fs \cup {name} |->
        IF n = name THEN <<img.width, img.height>> ELSE fs[n]]

\* lines 139-147, 153-161, 167-175: name the file, save it, print it
Save ==
    /\ pc = "save"
    /\ files' = WriteFile(files, EntryName, icon)
    /\ written' = Append(written, EntryName)
    /\ log' = Append(log, "  Created: " \o EntryName)
    /\ icon' = NoCanvas
    /\ pc' = "count"
    /\ UNCHANGED <<pillow, icoFile, pngFile, dirExists, dirAtStart,
                   filesAtStart, source, loop, fam, sc, generated, exitCode,
                   call, ret>>

NextLoop(l) == IF l = "square" THEN "wide" ELSE "splash"

\* mutant: the splash-screen loop does not count its files
Count_nosplash ==
    /\ pc = "count"
    /\ generated' = IF loop = "splash" THEN generated ELSE generated + 1
    /\ IF sc < Len(Table(loop)[fam].scales)
       THEN /\ sc' = sc + 1
            /\ pc' = "compute"
            /\ UNCHANGED <<loop, fam>>
       ELSE IF fam < Len(Table(loop))
       THEN /\ fam' = fam + 1
            /\ sc' = 1
            /\ pc' = "compute"
            /\ UNCHANGED loop
       ELSE IF loop # "splash"
       THEN /\ loop' = NextLoop(loop)
            /\ fam' = 1
            /\ sc' = 1
            /\ pc' = "compute"
       ELSE /\ pc' = "report"
            /\ UNCHANGED <<loop, fam, sc>>
    /\ UNCHANGED <<pillow, icoFile, pngFile, dirExists, files, dirAtStart,
                   filesAtStart, source, icon, written, log, exitCode,
                   call, ret>>

\* lines 148, 162, 176: generated += 1, then the for-loops advance
Count ==
    /\ pc = "count"
    /\ generated' = generated + 1
    /\ IF sc < Len(Table(loop)[fam].scales)
       THEN /\ sc' = sc + 1
            /\ pc' = "compute"
            /\ UNCHANGED <<loop, fam>>
       ELSE IF fam < Len(Table(loop))
       THEN /\ fam' = fam + 1
            /\ sc' = 1
            /\ pc' = "compute"
            /\ UNCHANGED loop
       ELSE IF loop # "splash"
       THEN /\ loop' = NextLoop(loop)
            /\ fam' = 1
            /\ sc' = 1
            /\ pc' = "compute"
       ELSE /\ pc' = "report"
            /\ UNCHANGED <<loop, fam, sc>>
    /\ UNCHANGED <<pillow, icoFile, pngFile, dirExists, files, dirAtStart,
                   filesAtStart, source, icon, written, log, exitCode,
                   call, ret>>

\* lines 178-179, and the normal end of the process
Report ==
    /\ pc = "report"
    /\ log' = log \o << "Generated " \o ToString(generated) \o " assets in ASSETS_DIR",
                        "Done!" >>
    /\ pc' = "done"
    /\ exitCode' = 0
    /\ UNCHANGED <<pillow, icoFile, pngFile, dirExists, files, dirAtStart,
                   filesAtStart, source, loop, fam, sc, icon, generated,
                   written, call, ret>>

(***************************************************************************)
(* The environments main() is run in.                                      *)
(***************************************************************************)
Sides == (1..MaxSide) \cup {BigSide}

\* the frames an icon file may embed
Frames == {NewImage(s, s, "RGBA", WHITE) : s \in Sides}
FrameLists == UNION {[1..n -> Frames] : n \in 1..MaxFrames}
IconFiles ==
    {[exists |-> TRUE, n_frames_attr |-> b, frames |-> fs] :
        b \in BOOLEAN, fs \in FrameLists}
NoIconFile == [exists |-> FALSE, n_frames_attr |-> FALSE, frames |-> << >>]

\* the plain image file
PngFiles ==
    {[exists |-> TRUE, image |-> NewImage(w, h, "RGB", WHITE)] :
        w \in {1, BigSide}, h \in {1, BigSide}}
NoPngFile == [exists |-> FALSE, image |-> NoImage]

NoCall == [fn |-> "none", source |-> NoImage, width |-> 0, height |-> 0]
NoRet == [ok |-> FALSE, source |-> NoImage, result |-> NoCanvas]

EmptyDir == [n \in {} |-> <<0, 0>>]
StaleDir == [n \in {"StoreLogo.png", "Old.png"} |-> <<1, 1>>]

Init ==
    /\ pc = "import"
    /\ pillow \in BOOLEAN
    /\ icoFile \in {NoIconFile} \cup IconFiles
    /\ pngFile \in {NoPngFile} \cup PngFiles
    /\ \E d \in {<<FALSE, EmptyDir>>, <<TRUE, EmptyDir>>, <<TRUE, StaleDir>>} :
          /\ dirExists = d[1]
          /\ files = d[2]
          /\ dirAtStart = d[1]
          /\ filesAtStart = d[2]
    /\ source = NoImage
    /\ loop = "none"
    /\ fam = 0
    /\ sc = 0
    /\ icon = NoCanvas
    /\ generated = 0
    /\ written = << >>
    /\ log = << >>
    /\ exitCode = Running
    /\ call = NoCall
    /\ ret = NoRet

Next ==
    \/ Import
    \/ MakeAssetsDir
    \/ UseIco
    \/ UsePng
    \/ NoSource
    \/ Convert
    \/ ComputeSquare
    \/ ComputeWide
    \/ ComputeSplash
    \/ Save
    \/ Count
    \/ Report

Spec == Init /\ [][Next]_vars

(***************************************************************************)
(* The compositing functions called directly, on any source and size.      *)
(***************************************************************************)
Sources ==
    {NewImage(w, h, m[1], m[2]) :
        w \in 1..MaxSrc, h \in 1..MaxSrc,
        m \in {<<"RGBA", WHITE>>, <<"RGBA", TRANSPARENT>>, <<"RGB", WHITE>>}}

CallInit ==
    /\ pc = "call"
    /\ pillow = TRUE
    /\ icoFile = NoIconFile
    /\ pngFile = NoPngFile
    /\ dirExists = FALSE
    /\ files = EmptyDir
    /\ dirAtStart = FALSE
    /\ filesAtStart = EmptyDir
    /\ source = NoImage
    /\ loop = "none"
    /\ fam = 0
    /\ sc = 0
    /\ icon = NoCanvas
    /\ generated = 0
    /\ written = << >>
    /\ log = << >>
    /\ exitCode = Running
    /\ call = NoCall
    /\ ret = NoRet

CallSquare ==
    /\ call = NoCall
    /\ \E src \in Sources, size \in 0..MaxDim, up \in BOOLEAN :
          /\ call' = [fn |-> "create_square_icon", source |-> src,
                      width |-> size, height |-> size]
          /\ ret' = create_square_icon(src, size, up)
          /\ UNCHANGED mainVars

CallWide ==
    /\ call = NoCall
    /\ \E src \in Sources, width \in 1..MaxDim, height \in 1..MaxDim, up \in BOOLEAN :
          /\ call' = [fn |-> "create_wide_icon", source |-> src,
                      width |-> width, height |-> height]
          /\ ret' = create_wide_icon(src, width, height, up)
          /\ UNCHANGED mainVars

CallSplash ==
    /\ call = NoCall
    /\ \E src \in Sources, width \in 1..MaxDim, height \in 1..MaxDim, up \in BOOLEAN :
          /\ call' = [fn |-> "create_splash_screen", source |-> src,
                      width |-> width, height |-> height]
          /\ ret' = create_splash_screen(src, width, height, up)
          /\ UNCHANGED mainVars

CallNext ==
    \/ CallSquare
    \/ CallWide
    \/ CallSplash

CallSpec == CallInit /\ [][CallNext]_vars

(***************************************************************************)
(* Derived from the tables: every entry in generation order.               *)
(***************************************************************************)
RECURSIVE Flatten(_)
Flatten(seqs) == IF seqs = << >> THEN << >> ELSE Head(seqs) \o Flatten(Tail(seqs))

\* the entries of one table, family by family, as [name, width, height]
TableEntries(l) ==
    Flatten([f \in 1..Len(Table(l)) |->
        [k \in 1..Len(Table(l)[f].scales) |->
            LET e == Table(l)[f].scales[k]
            IN  [name |-> Filename(Table(l)[f].base_name, e[1]),
                 width |-> IF l = "square" THEN e[2] ELSE e[2][1],
                 height |-> IF l = "square" THEN e[2] ELSE e[2][2]]]])

AllEntries == TableEntries("square") \o TableEntries("wide") \o TableEntries("splash")

Range(seq) == {seq[i] : i \in 1..Len(seq)}

SourceExists == icoFile.exists \/ pngFile.exists

(***************************************************************************)
(* C1.  A run of main() with a valid source image and an empty or missing  *)
(* output directory creates the directory and ends having written exactly  *)
(* 19 files.                                                               *)
(***************************************************************************)
C1_NineteenFiles ==
    (pc = "done" /\ filesAtStart = EmptyDir) =>
        /\ dirExists
        /\ Cardinality(DOMAIN files) = 5 + 5 + 5 + 4

\* C1 as amended: such a run ends at "done" with the directory created and
\* exactly 34 files in it, 25 square + 5 wide + 4 splash, one per entry of
\* the three default tables.
C1_ThirtyFourFiles ==
    /\ (exitCode # Running /\ pillow /\ SourceExists) => pc = "done"
    /\ (pc = "done" /\ filesAtStart = EmptyDir) =>
          /\ dirExists
          /\ Cardinality(DOMAIN files) = 25 + 5 + 4
          /\ Cardinality(DOMAIN files) = Len(AllEntries)
          /\ DOMAIN files = Range(written)

C1_Witness ==
    /\ pc = "done"
    /\ ~dirAtStart
    /\ dirExists
    /\ Cardinality(DOMAIN files) = 34

(***************************************************************************)
(* C2.  When neither SOURCE_ICON nor SOURCE_PNG exists as main() runs, the *)
(* process exits with a non-zero code, both paths are logged, and no save  *)
(* step is reached: no file is written at any point of the run.            *)
(***************************************************************************)
C2_MissingSource ==
    (pillow /\ ~SourceExists) =>
        /\ pc \in {"import", "main", "select", "exited"}
        /\ written = << >>
        /\ files = filesAtStart
        /\ exitCode \in {Running, 1}
        /\ pc = "exited" =>
              /\ exitCode = 1
              /\ "  Tried: SOURCE_ICON" \in Range(log)
              /\ "  Tried: SOURCE_PNG" \in Range(log)

C2_Witness ==
    /\ pillow
    /\ ~SourceExists
    /\ pc = "exited"
    /\ exitCode = 1
    /\ Len(log) = 4

(***************************************************************************)
(* C3.  Source selection: the icon file is the source whenever it exists,  *)
(* whether or not the fallback exists too, and the frame used has the      *)
(* largest pixel area of all embedded frames; the plain image is used only *)
(* when the icon file is absent; with both absent the run fails.           *)
(***************************************************************************)
Area(img) == img.width * img.height

\* C3: the source chosen at the end of selection follows the policy icon
\* first (a frame of maximal area), plain image second, failure otherwise.
C3_SourceSelection ==
    /\ (pc = "convert" /\ icoFile.exists) =>
          /\ source \in Range(icoFile.frames)
          /\ \A i \in 1..Len(icoFile.frames) : Area(icoFile.frames[i]) <= Area(source)
          /\ log[Len(log)] = "Using ICO source: SOURCE_ICON"
    /\ (pc = "convert" /\ ~icoFile.exists) =>
          /\ pngFile.exists
          /\ source = pngFile.image
          /\ log[Len(log)] = "Using PNG source: SOURCE_PNG"
    /\ (pillow /\ ~SourceExists /\ exitCode # Running) => (pc = "exited" /\ exitCode = 1)
    /\ (pc \notin {"import", "main", "select", "exited"}) => SourceExists

C3_Witness ==
    /\ pc = "convert"
    /\ icoFile.exists
    /\ pngFile.exists
    /\ icoFile.n_frames_attr
    /\ Len(icoFile.frames) = 2
    /\ Area(icoFile.frames[1]) > Area(icoFile.frames[2])
    /\ source = icoFile.frames[1]

(***************************************************************************)
(* Claims about the compositing functions called directly.                 *)
(***************************************************************************)
\* the pasted content of a returned canvas
ContentW == ret.result.box.w
ContentH == ret.result.box.h
SrcW == call.source.width
SrcH == call.source.height
Corners(c) ==
    {<<0, 0>>, <<c.width - 1, 0>>, <<0, c.height - 1>>, <<c.width - 1, c.height - 1>>}

(***************************************************************************)
(* C4.  create_square_icon scales every source, also one smaller than the  *)
(* target, keeping its aspect ratio, so that the longer side of the scaled *)
(* content equals the target size N.                                       *)
(***************************************************************************)
C4_LongerSideIsN ==
    (call.fn = "create_square_icon" /\ call.width >= 1) =>
        /\ ret.ok
        /\ Max(ContentW, ContentH) = call.width

\* C4 as amended: for N >= 1 the longer side of the content is N when the
\* source's longer side is at least N; a source that already fits within
\* N x N is pasted at its own size (never upscaled).  In both cases the
\* aspect ratio is kept to within one pixel.
C4_FitWithin ==
    (call.fn = "create_square_icon" /\ call.width >= 1) =>
        /\ ret.ok
        /\ Max(ContentW, ContentH) = Min(call.width, Max(SrcW, SrcH))
        /\ Max(SrcW, SrcH) <= call.width => (ContentW = SrcW /\ ContentH = SrcH)
        /\ Abs(ContentW * SrcH - ContentH * SrcW) < Max(SrcW, SrcH)

C4_Witness ==
    /\ call.fn = "create_square_icon"
    /\ ret.ok
    /\ call.width = 5
    /\ SrcW = 3
    /\ SrcH = 2
    /\ ContentW = 3
    /\ ContentH = 2

(***************************************************************************)
(* C5.  For N >= 1 create_square_icon returns an N x N canvas; the content *)
(* is at most N wide and high and is pasted at floor((N - w) / 2),         *)
(* floor((N - h) / 2), both >= 0, so it lies inside the canvas; and every  *)
(* pixel outside the pasted rectangle is fully transparent.                *)
(***************************************************************************)
C5_SquareCanvas ==
    (call.fn = "create_square_icon" /\ call.width >= 1) =>
        LET c == ret.result
            N == call.width
        IN  /\ ret.ok
            /\ c.width = N /\ c.height = N
            /\ c.box.w <= N /\ c.box.h <= N
            /\ c.box.x >= 0 /\ c.box.y >= 0
            /\ (N - c.box.w) - 2 * c.box.x \in {0, 1}
            /\ (N - c.box.h) - 2 * c.box.y \in {0, 1}
            /\ c.box.x + c.box.w <= N /\ c.box.y + c.box.h <= N
            /\ \A px \in 0..(N - 1), py \in 0..(N - 1) :
                  ~InBox(c, px, py) => Pixel(c, px, py) = TRANSPARENT

C5_Witness ==
    /\ call.fn = "create_square_icon"
    /\ ret.ok
    /\ call.width = 5
    /\ SrcW = 4
    /\ SrcH = 2
    /\ call.source.ink = WHITE
    /\ ret.result.box = [x |-> 0, y |-> 1, w |-> 4, h |-> 2]
    /\ Pixel(ret.result, 0, 0) = TRANSPARENT
    /\ Pixel(ret.result, 0, 1) = WHITE

(***************************************************************************)
(* C6.  For any (width, height) and any source, create_wide_icon and       *)
(* create_splash_screen return a canvas of exactly width x height whose    *)
(* four corner pixels have the background colour: the pasted icon never    *)
(* covers a corner, also when width is smaller than the icon bound.        *)
(***************************************************************************)
C6_CornersAnySize ==
    (call.fn \in {"create_wide_icon", "create_splash_screen"} /\ ret.ok) =>
        /\ ret.result.width = call.width
        /\ ret.result.height = call.height
        /\ \A p \in Corners(ret.result) : Pixel(ret.result, p[1], p[2]) = BACKGROUND

\* the sizes for which the amended C6 speaks
WideSizeOk(width, height) == height >= 3 \/ (height = 2 /\ width >= 3)
SplashSizeOk(width, height) == height >= 2 /\ width >= 4

\* C6 as amended: create_wide_icon does so for every width >= 1 and height
\* >= 3 (and for height 2 when width >= 3), create_splash_screen for every
\* height >= 2 and width >= 4.  For smaller sizes the icon bound is 0 and the
\* call raises ZeroDivisionError, or (create_wide_icon, height 2, width <= 2)
\* the one-pixel icon is pasted over the top-left corner.
C6_CornersFromMinSize ==
    /\ (\/ call.fn = "create_wide_icon" /\ WideSizeOk(call.width, call.height)
        \/ call.fn = "create_splash_screen" /\ SplashSizeOk(call.width, call.height)) =>
          /\ ret.ok
          /\ ret.result.width = call.width
          /\ ret.result.height = call.height
          /\ \A p \in Corners(ret.result) :
                /\ ~InBox(ret.result, p[1], p[2])
                /\ Pixel(ret.result, p[1], p[2]) = BACKGROUND
    /\ (call.fn = "create_wide_icon" /\ call.height = 1) => ~ret.ok
    /\ (call.fn = "create_splash_screen" /\ ~SplashSizeOk(call.width, call.height)) => ~ret.ok
    /\ (call.fn = "create_wide_icon" /\ call.height = 2 /\ call.width <= 2) =>
          (ret.ok /\ InBox(ret.result, 0, 0))

C6_Witness ==
    /\ call.fn = "create_wide_icon"
    /\ call.width = 2
    /\ call.height = 5
    /\ SrcW = 4
    /\ SrcH = 4
    /\ call.source.ink = WHITE
    /\ ret.ok
    /\ ret.result.box = [x |-> -1, y |-> 1, w |-> 3, h |-> 3]
    /\ \A p \in Corners(ret.result) : Pixel(ret.result, p[1], p[2]) = BACKGROUND

(***************************************************************************)
(* C7.  After a successful run the output directory holds one file per     *)
(* table entry, named {family}.png for scale 100 and                       *)
(* {family}.scale-{scale}.png otherwise; no two entries share a file name; *)
(* and each file has its entry's dimensions, e.g. Square44x44Logo.png      *)
(* 44x44, .scale-125 55x55, .scale-150 66x66, .scale-200 88x88, .scale-400 *)
(* 176x176.                                                                *)
(***************************************************************************)
Square44Files ==
    << <<"Square44x44Logo.png", 44>>,
       <<"Square44x44Logo.scale-125.png", 55>>,
       <<"Square44x44Logo.scale-150.png", 66>>,
       <<"Square44x44Logo.scale-200.png", 88>>,
       <<"Square44x44Logo.scale-400.png", 176>> >>

\* C7: at "done" every entry's file exists under its policy name with the
\* entry's dimensions, and the names are pairwise distinct.
C7_FilesPerEntry ==
    pc = "done" =>
        /\ \A i \in 1..Len(AllEntries) :
              /\ AllEntries[i].name \in DOMAIN files
              /\ files[AllEntries[i].name] = <<AllEntries[i].width, AllEntries[i].height>>
        /\ \A i, j \in 1..Len(AllEntries) :
              AllEntries[i].name = AllEntries[j].name => i = j
        /\ \A i, j \in 1..Len(written) : written[i] = written[j] => i = j
        /\ \A i \in 1..Len(Square44Files) :
              /\ Square44Files[i][1] \in DOMAIN files
              /\ files[Square44Files[i][1]] = <<Square44Files[i][2], Square44Files[i][2]>>
        /\ {n \in DOMAIN files : \E i \in 1..Len(AllEntries) :
                                    AllEntries[i].name = n /\ i <= 5}
              = {Square44Files[i][1] : i \in 1..Len(Square44Files)}
        /\ DOMAIN files = DOMAIN filesAtStart \cup Range(written)

C7_Witness ==
    /\ pc = "done"
    /\ source.width = 512
    /\ source.height = 512
    /\ "Square44x44Logo.scale-400.png" \in DOMAIN files
    /\ files["Square44x44Logo.scale-400.png"] = <<176, 176>>
    /\ files["StoreLogo.png"] = <<50, 50>>
    /\ filesAtStart = StaleDir

(***************************************************************************)
(* C8.  Generation is strictly sequential: each output image is computed   *)
(* and written before the next is computed, at most one image is in flight *)
(* at any time, outputs appear in table order (square families, then the   *)
(* wide banner, then the splash screen, each in listed scale order), the   *)
(* source is never modified after its conversion to RGBA, and the run ends *)
(* either at "Done" with exit code 0 or in an outright failure, with no    *)
(* retry.                                                                  *)
(***************************************************************************)
Generating == pc \in {"compute", "save", "count", "report", "done"}

C8_StateInv ==
    /\ icon # NoCanvas => pc = "save"
    /\ pc = "compute" => (icon = NoCanvas /\ Len(written) = generated)
    /\ pc = "save" => (icon # NoCanvas /\ Len(written) = generated)
    /\ Len(written) <= Len(AllEntries)
    /\ \A i \in 1..Len(written) : written[i] = AllEntries[i].name
    /\ pc = "save" => EntryName = AllEntries[Len(written) + 1].name
    /\ exitCode # Running =>
          \/ pc = "done" /\ exitCode = 0 /\ Len(written) = Len(AllEntries)
          \/ pc = "exited" /\ exitCode = 1 /\ written = << >>
    /\ pc \in {"done", "exited"} <=> exitCode # Running
    /\ pc \notin {"done", "exited"} => ENABLED Next

C8_Step ==
    /\ Generating => (source' = source /\ Generating')
    /\ exitCode # Running => UNCHANGED vars
    /\ written' = written \/ (pc = "save" /\ Len(written') = Len(written) + 1)
    /\ pc = "compute" => pc' \in {"compute", "save"}

\* C8: the state invariant holds always and every step is sequential: the
\* source stays as converted, a file is appended only by a save, and nothing
\* follows an exit.
C8_Sequential == []C8_StateInv /\ [][C8_Step]_vars

C8_Witness ==
    /\ pc = "done"
    /\ exitCode = 0
    /\ source = NewImage(512, 512, "RGBA", WHITE)
    /\ pngFile.exists
    /\ pngFile.image = NewImage(512, 512, "RGB", WHITE)
    /\ written[26] = "Wide310x150Logo.png"
    /\ written[34] = "SplashScreen.scale-200.png"

(***************************************************************************)
(* C9.  The reported count equals the number of files written: at every    *)
(* point of a run `generated` equals the number of distinct files written  *)
(* so far, and at successful completion it equals the number of entries of *)
(* the three tables.                                                       *)
(***************************************************************************)
C9_CountAtEveryPoint ==
    /\ generated = Cardinality(Range(written))
    /\ pc = "done" => generated = Len(AllEntries)

\* C9 as amended: `generated` equals the number of distinct files written so
\* far at every point except between a file's save and the increment that
\* follows it, where it is one less; at successful completion it equals the
\* number of entries of the three tables (34).
C9_CountBetweenIterations ==
    /\ pc # "count" => generated = Cardinality(Range(written))
    /\ pc = "count" => generated + 1 = Cardinality(Range(written))
    /\ pc = "done" =>
          /\ generated = Len(AllEntries)
          /\ generated = 34
          /\ log[Len(log) - 1] = "Generated 34 assets in ASSETS_DIR"

C9_Witness ==
    /\ pc = "count"
    /\ generated = 33
    /\ Len(written) = 34

(***************************************************************************)
(* C10.  The output directory is created as the first filesystem action of *)
(* main(), before the source image is looked up: every run that passes the *)
(* import, also the one failing for a missing source, leaves the directory *)
(* in place at exit, while a failed import exits non-zero before any       *)
(* filesystem change.                                                      *)
(***************************************************************************)
C10_DirFirst ==
    /\ pc \in {"import", "main"} =>
          /\ dirExists = dirAtStart
          /\ files = filesAtStart
          /\ source = NoImage
    /\ (pillow /\ pc \notin {"import", "main"}) => dirExists
    /\ (pillow /\ exitCode # Running) => dirExists
    /\ ~dirExists => (source = NoImage /\ written = << >>)
    /\ ~pillow =>
          /\ pc \in {"import", "exited"}
          /\ dirExists = dirAtStart
          /\ files = filesAtStart
          /\ exitCode \in {Running, 1}
          /\ pc = "exited" => exitCode = 1

C10_Witness ==
    /\ pillow
    /\ ~SourceExists
    /\ pc = "exited"
    /\ exitCode = 1
    /\ ~dirAtStart
    /\ dirExists
    /\ files = EmptyDir

====
